---- MODULE Spec2Model ----
(***************************************************************************)
(* ExternalEmbedding (dglke/models/pytorch/tensor_models.py): a sparse     *)
(* embedding table with a per-row Adagrad accumulator, its gather          *)
(* (__call__), its update (synchronous, or enqueued for the async_update   *)
(* worker process through a Queue(1)), and the cross-relation overlay that *)
(* mirrors rows from a global table.                                       *)
(*                                                                         *)
(* Numbers: float32 values are modelled in fixed point, FP units to 1.0,   *)
(* with flooring division; a gradient is the one the autodiff engine will  *)
(* have deposited in data.grad by the time update() reads it, and is drawn *)
(* when the traced copy is made.  Device placement (gpu_id, .cuda(), .to)  *)
(* moves values without changing them and is left out.  The table's        *)
(* storage is in shared memory (share_memory), so what the worker process  *)
(* writes is what the owner reads.                                         *)
(***************************************************************************)
EXTENDS Integers, Sequences, FiniteSets, TLC

\* ------------------------------------------------------------------ bounds
NumRows == 2
Dim == 2
MaxTrace == 2
MaxSteps == 2
FP == 100

\* ------------------------------------------------------- program constants
\* std.sqrt_().add_(1e-10): the smallest positive step of the fixed point
Eps == 1
\* Queue(2): one slot too many
QueueMaxSizeTwo == 1 + 1

\* Queue(1)
QueueMaxSize == 1
\* args.lr: 0.1 in fixed point
Lr == FP \div 10

Rows == 1..NumRows
\* an index tensor has as many entries as idx_all
IdxLen == NumRows
Dims == 1..Dim
None == "None"

\* --------------------------------------------------------------- variables
VARIABLES
    args,           \* self.args: the global configs
    is_feat,        \* self.is_feat
    emb,            \* self.emb: row -> vector
    state_sum,      \* self.state_sum: row -> accumulator
    trace,          \* self.trace: sequence of (idx, data) with data.grad
    state_step,     \* self.state_step
    has_cross_rel,  \* self.has_cross_rel
    cpu_bitmap,     \* self.cpu_bitmap: row -> BOOLEAN
    global_emb,     \* self.global_emb: [emb, state_sum] of the global table
    async_q,        \* self.async_q: None, or the queue's pending items
    async_p,        \* self.async_p: None, or the worker's position
    wreq,           \* the worker's local (grad_indices, grad_values)
    opc,            \* the owner's position
    ui,             \* update()'s position in self.trace while it enqueues
    err,            \* the error the last call raised, None when it returned
    enq,            \* history: every item whose put() has completed
    applied,        \* history: every request the worker has applied
    file,           \* the array in <path>/<name>.npy, NoFile when there is none
    base            \* history: the tables as create_async_update found them

vars == <<args, is_feat, emb, state_sum, trace, state_step, has_cross_rel, cpu_bitmap,
          global_emb, async_q, async_p, wreq, opc, ui, err, enq, applied, file, base>>

\* ------------------------------------------------------------- arithmetic
\* the largest r in lo..hi with r * r <= x, by bisection
RECURSIVE ISqrtIn(_, _, _)
ISqrtIn(x, lo, hi) ==
    IF lo >= hi THEN lo
    ELSE LET mid == (lo + hi + 1) \div 2
         IN IF mid * mid <= x THEN ISqrtIn(x, mid, hi) ELSE ISqrtIn(x, lo, mid - 1)

\* a power of two whose square exceeds x
RECURSIVE ISqrtUpper(_, _)
ISqrtUpper(x, h) == IF h * h > x THEN h ELSE ISqrtUpper(x, 2 * h)

\* floor of the square root
ISqrt(x) == ISqrtIn(x, 0, ISqrtUpper(x, 1))

FMul(a, b) == (a * b) \div FP
FDiv(a, b) == (a * FP) \div b
FSqrt(a) == ISqrt(a * FP)

RECURSIVE SumTo(_, _)
SumTo(f, n) == IF n = 0 THEN 0 ELSE f[n] + SumTo(f, n - 1)

VecAdd(u, v) == [d \in Dims |-> u[d] + v[d]]

\* grad_values.mean(1): the square left out
GradSumNoSquare(grad_values) ==
    [k \in 1..Len(grad_values) |-> SumTo(grad_values[k], Dim) \div Dim]

\* (grad_values * grad_values).mean(1)
GradSum(grad_values) ==
    [k \in 1..Len(grad_values) |->
        SumTo([d \in Dims |-> FMul(grad_values[k][d], grad_values[k][d])], Dim)
            \div Dim]

\* t[index] += source: of the occurrences of a row only the last one counts
IndexAddOverwrite(t, index, source, k) ==
    [r \in DOMAIN t |->
        LET occ == {j \in 1..Len(index) : index[j] = r}
        IN IF occ = {} THEN t[r]
           ELSE t[r] + source[CHOOSE j \in occ : \A i \in occ : i <= j]]

\* Tensor.index_add_(0, index, source) on a vector: every occurrence adds
RECURSIVE IndexAdd(_, _, _, _)
IndexAdd(t, index, source, k) ==
    IF k > Len(index) THEN t
    ELSE IndexAdd([t EXCEPT ![index[k]] = @ + source[k]], index, source, k + 1)

\* Tensor.index_add_(0, index, source) on a matrix
RECURSIVE IndexAddRows(_, _, _, _)
IndexAddRows(t, index, source, k) ==
    IF k > Len(index) THEN t
    ELSE IndexAddRows([t EXCEPT ![index[k]] = VecAdd(@, source[k])],
                      index, source, k + 1)

\* state_sum[grad_indices].sqrt_().add_(1e-10)
StdValues(ss, index) == [k \in 1..Len(index) |-> FSqrt(ss[index[k]]) + Eps]

\* (-clr * grad_values / std_values)
Tmp(clr, grad_values, std_values) ==
    [k \in 1..Len(grad_values) |->
        [d \in Dims |-> FDiv(FMul(-clr, grad_values[k][d]), std_values[k])]]

\* t[mask]: the entries of t at the positions where mask holds, in order
RECURSIVE MaskSelect(_, _, _)
MaskSelect(t, mask, k) ==
    IF k > Len(t) THEN <<>>
    ELSE (IF mask[k] THEN <<t[k]>> ELSE <<>>) \o MaskSelect(t, mask, k + 1)

\* th.unique(t): the distinct entries of t, ascending
RECURSIVE SortedSeq(_)
SortedSeq(S) ==
    IF S = {} THEN <<>>
    ELSE LET m == CHOOSE x \in S : \A y \in S : x <= y
         IN <<m>> \o SortedSeq(S \ {m})

Unique(t) == SortedSeq({t[k] : k \in 1..Len(t)})

\* t[index] = source[index]: the rows named by index are overwritten
RECURSIVE IndexPutFrom(_, _, _, _)
IndexPutFrom(t, index, source, k) ==
    IF k > Len(index) THEN t
    ELSE IndexPutFrom([t EXCEPT ![index[k]] = source[index[k]]], index, source, k + 1)

\* t[index]: the rows of t at index, one per occurrence
Select(t, index) == [k \in 1..Len(index) |-> t[index[k]]]

\* a dense add: every row of the accumulator takes the whole of grad_sum
ApplyStateSumDense(ss, index, grad_sum) ==
    [r \in DOMAIN ss |-> ss[r] + SumTo(grad_sum, Len(grad_sum))]

\* state_sum.index_add_(0, grad_indices, grad_sum)
ApplyStateSum(ss, index, grad_sum) == IndexAdd(ss, index, grad_sum, 1)

\* std = state_sum[grad_indices]; ...; emb.index_add_(0, grad_indices, tmp)
ApplyEmb(clr, e, ss1, index, grad_values) ==
    IndexAddRows(e, index, Tmp(clr, grad_values, StdValues(ss1, index)), 1)

\* ------------------------------------------------------------------ inputs
RECURSIVE SeqsOfLen(_, _)
SeqsOfLen(S, n) ==
    IF n = 0 THEN {<<>>}
    ELSE {Append(s, x) : s \in SeqsOfLen(S, n - 1), x \in S}

\* the index tensors a caller passes to __call__: IdxLen rows in any order,
\* repeats included
IdxSeqs == SeqsOfLen(Rows, IdxLen)

\* __call__'s idx argument: None, or an index tensor
IdxInputs == {[none |-> TRUE, idx |-> <<>>]}
                 \cup {[none |-> FALSE, idx |-> s] : s \in IdxSeqs}

\* The gradient the autodiff engine deposits for occurrence k of a traced
\* copy: the row (k, -(k+1), k, ..), so rows and occurrences differ in both
\* size and sign.
GradRow(k) == [d \in Dims |-> FP * (IF d % 2 = 1 THEN k ELSE -(k + 1))]

Grads(n) == [k \in 1..n |-> GradRow(k)]

\* th.empty / INIT.uniform_: the storage holds values the code does not choose
EmbInits == {[r \in Rows |-> [d \in Dims |-> v * FP]] : v \in {0, 1}}

GlobalEmbInit == [r \in Rows |-> [d \in Dims |-> -(r * FP)]]

ZeroSum == [r \in Rows |-> 0]

\* self.state_sum = None of a feature table: an accumulator of no rows
NoSum == <<>>

\* the external array a feature table's emb stands for
FeatInits == EmbInits

\* setup_cross_rels' cross_rels: the first n rows, some but not all
CrossRelSets == {1..n : n \in 1..(NumRows - 1)}

\* self.idx_all = th.arange(num)
idx_all == [k \in 1..NumRows |-> k]

NoQueue == [exists |-> FALSE, items |-> <<>>]
NoReq == [none |-> TRUE, idx |-> <<>>, grad |-> <<>>]
\* (None, None, None)
Sentinel == NoReq
\* no file of that name in the directory
NoFile == <<>>

\* a checkpoint of that name left in the directory by a table of another
\* size: one row more than this table has
OtherFiles == {[r \in 1..(NumRows + 1) |-> [d \in Dims |-> FP]]}

NoTables == [emb |-> <<>>, state_sum |-> <<>>, global_emb |-> <<>>]

\* -------------------------------------------------------------------- Init
\* ExternalEmbedding.__init__ of the table and of the global table
InitTable ==
    /\ is_feat \in BOOLEAN
    /\ emb \in (IF is_feat THEN FeatInits ELSE EmbInits)
    /\ state_sum = (IF is_feat THEN NoSum ELSE ZeroSum)
    /\ trace = <<>>
    /\ state_step = 0
    /\ has_cross_rel = FALSE
    /\ cpu_bitmap = [r \in Rows |-> FALSE]
    /\ global_emb = [emb |-> GlobalEmbInit, state_sum |-> ZeroSum]
    /\ async_q = NoQueue
    /\ async_p = None
    /\ wreq = NoReq
    /\ opc = "ready"
    /\ ui = 0
    /\ err = None
    /\ enq = <<>>
    /\ applied = <<>>
    /\ base = NoTables

\* the configs of a run that does not ask for the asynchronous update
Init ==
    /\ args = [lr |-> Lr, async_update |-> FALSE]
    /\ InitTable
    /\ file = NoFile

\* the configs of any run: args.async_update is set by the caller, and no
\* operation of the table reads it
InitCfg ==
    /\ args \in {[lr |-> Lr, async_update |-> b] : b \in BOOLEAN}
    /\ InitTable
    /\ file = NoFile

\* a table that owns its storage, in a directory that may hold a checkpoint
InitIO ==
    /\ args = [lr |-> Lr, async_update |-> FALSE]
    /\ InitTable
    /\ ~is_feat
    /\ file \in {NoFile} \cup OtherFiles

\* ----------------------------------------------------------------- actions
\* INIT.uniform_(self.emb, ..): the tensor is refilled in place, whatever
\* rows it has
UniformFill(t, e) ==
    [r \in DOMAIN t |-> IF r \in DOMAIN e THEN e[r] ELSE e[NumRows]]

\* ExternalEmbedding.init; it is the owner's call, made before the
\* asynchronous update is set up, so never while a worker holds the table
InitEmb(e) ==
    /\ opc = "ready"
    /\ ~is_feat
    /\ ~async_q.exists
    /\ emb' = UniformFill(emb, e)
    /\ state_sum' = ZeroSum
    /\ err' = None
    /\ UNCHANGED <<args, is_feat, trace, state_step, has_cross_rel, cpu_bitmap, global_emb,
                   async_q, async_p, wreq, opc, ui, enq, applied,
                   file, base>>

\* ExternalEmbedding.setup_cross_rels; called once, before training starts
SetupCrossRels(cross_rels) ==
    /\ opc = "ready"
    /\ ~is_feat
    /\ ~has_cross_rel
    /\ state_step = 0 /\ trace = <<>>
    /\ cpu_bitmap' = [r \in Rows |-> r \in cross_rels]
    /\ has_cross_rel' = TRUE
    /\ err' = None
    /\ UNCHANGED <<args, is_feat, emb, state_sum, trace, state_step, global_emb,
                   async_q, async_p, wreq, opc, ui, enq, applied,
                   file, base>>

\* the mask left out: every requested row is mirrored
MirrorIdxNoMask(idx) == Unique(idx)

\* the rows __call__ mirrors from the global table: th.unique(cpu_idx[cpu_mask])
MirrorIdx(idx) ==
    Unique(MaskSelect(idx, [k \in 1..Len(idx) |-> cpu_bitmap[idx[k]]], 1))

\* self.emb after __call__'s read-through of the global rows
Mirrored(idx) ==
    IF has_cross_rel /\ Len(MirrorIdx(idx)) # 0
    THEN IndexPutFrom(emb, MirrorIdx(idx), global_emb.emb, 1)
    ELSE emb

\* the idx __call__ works on: idx_all when it is given None
GatherIdx(inp) == IF inp.none THEN idx_all ELSE inp.idx

\* what __call__ returns: the rows at idx after the read-through
GatherResult(idx) == Select(Mirrored(idx), idx)

\* the entry records the distinct indices only
TraceEntryUnique(idx, s) == [idx |-> Unique(idx), grad |-> Grads(Len(Unique(idx)))]

\* the entry __call__ appends to self.trace
TraceEntry(idx, s) == [idx |-> idx, grad |-> Grads(Len(idx))]

\* the assertion dropped: a feature table traces like any other
AssertNotTraceFailsNever(tr) == FALSE

\* __call__'s `if self.is_feat: assert not trace` fails
AssertNotTraceFails(tr) == is_feat /\ tr

\* ExternalEmbedding.__call__(idx, gpu_id, trace) when it returns; the trace
\* and the update count are capped
Gather(inp, tr) ==
    /\ opc = "ready"
    /\ ~AssertNotTraceFails(tr)
    /\ tr => Len(trace) < MaxTrace /\ state_step < MaxSteps
    /\ LET idx == GatherIdx(inp)
           s == GatherResult(idx)
       IN /\ emb' = Mirrored(idx)
          /\ trace' = IF tr THEN Append(trace, TraceEntry(idx, s)) ELSE trace
    /\ err' = None
    /\ UNCHANGED <<args, is_feat, state_sum, state_step, has_cross_rel, cpu_bitmap, global_emb,
                   async_q, async_p, wreq, opc, ui, enq, applied,
                   file, base>>

\* ExternalEmbedding.__call__(idx, gpu_id, trace) when its first assertion
\* fails: the AssertionError leaves the call before anything is written
GatherFails(inp, tr) ==
    /\ opc = "ready"
    /\ AssertNotTraceFails(tr)
    /\ err' = "AssertionError"
    /\ UNCHANGED <<args, is_feat, emb, state_sum, trace, state_step, has_cross_rel,
                   cpu_bitmap, global_emb, async_q, async_p, wreq, opc, ui, enq,
                   applied,
                   file, base>>

\* the global table updated at every touched row, cross or not
SyncGlobalNoMask(g, idx, grad_values, grad_sum) ==
    LET gss == ApplyStateSum(g.state_sum, idx, grad_sum)
    IN IF has_cross_rel
       THEN [emb |-> ApplyEmb(args.lr, g.emb, gss, idx, grad_values), state_sum |-> gss]
       ELSE g

\* update()'s step on the global table for one pair (idx, data): the rows of
\* idx in the cross set, lines 370-384
SyncGlobal(g, idx, grad_values, grad_sum) ==
    LET cpu_mask == [k \in 1..Len(idx) |-> cpu_bitmap[idx[k]]]
        cpu_idx == MaskSelect(idx, cpu_mask, 1)
        cpu_grad == MaskSelect(grad_values, cpu_mask, 1)
        cpu_sum == MaskSelect(grad_sum, cpu_mask, 1)
        gss == ApplyStateSum(g.state_sum, cpu_idx, cpu_sum)
    IN IF has_cross_rel /\ Len(cpu_idx) > 0
       THEN [emb |-> ApplyEmb(args.lr, g.emb, gss, cpu_idx, cpu_grad), state_sum |-> gss]
       ELSE g

\* One iteration of update()'s loop on the synchronous path: the tables
\* st = [emb, state_sum, global_emb] after the pair (idx, data) is applied.
SyncStep(st, entry) ==
    LET grad_indices == entry.idx
        grad_values == entry.grad
        grad_sum == GradSum(grad_values)
        ss1 == ApplyStateSum(st.state_sum, grad_indices, grad_sum)
    IN [emb |-> ApplyEmb(args.lr, st.emb, ss1, grad_indices, grad_values),
        state_sum |-> ss1,
        global_emb |-> SyncGlobal(st.global_emb, grad_indices, grad_values, grad_sum)]

\* the loop body run once, after the loop, on the last pair
SyncLoopLastOnly(st, tr, k) ==
    IF tr = <<>> THEN st ELSE SyncStep(st, tr[Len(tr)])

\* update()'s loop over self.trace on the synchronous path
RECURSIVE SyncLoop(_, _, _)
SyncLoop(st, tr, k) ==
    IF k > Len(tr) THEN st ELSE SyncLoop(SyncStep(st, tr[k]), tr, k + 1)

\* the channel never looked at: update() always applies the trace itself
UseSyncPathAlways == TRUE

\* the path chosen by the configuration instead of the channel
UseSyncPathByArgs == ~args.async_update

\* update() takes the synchronous path: self.async_q is None
UseSyncPath == ~async_q.exists

\* ExternalEmbedding.update, self.async_q is None
UpdateSync ==
    /\ opc = "ready"
    /\ UseSyncPath
    /\ state_step < MaxSteps
    /\ state_step' = state_step + 1
    /\ LET st == SyncLoop([emb |-> emb, state_sum |-> state_sum,
                           global_emb |-> global_emb], trace, 1)
       IN /\ emb' = st.emb
          /\ state_sum' = st.state_sum
          /\ global_emb' = st.global_emb
    /\ trace' = <<>>
    /\ err' = None
    /\ UNCHANGED <<args, is_feat, has_cross_rel, cpu_bitmap, async_q, async_p, wreq, opc, ui,
                   enq, applied,
                   file, base>>

\* Queue() of thread_wrapped_func's result: no maxsize, a put() never blocks
HasRoomUnbounded(q) == TRUE

\* whether a put() on the queue returns at once: Queue(1) has room
HasRoom(q) == Len(q.items) < QueueMaxSize

\* self.async_q.put(item), once it returns
Put(q, item) == [q EXCEPT !.items = Append(@, item)]

\* ExternalEmbedding.create_async_update; one worker process per table
CreateAsyncUpdate ==
    /\ opc = "ready"
    /\ ~async_q.exists
    /\ async_q' = [exists |-> TRUE, items |-> <<>>]
    /\ async_p' = "Idle"
    /\ base' = [emb |-> emb, state_sum |-> state_sum, global_emb |-> global_emb]
    /\ err' = None
    /\ UNCHANGED <<args, is_feat, emb, state_sum, trace, state_step, has_cross_rel, cpu_bitmap,
                   global_emb, wreq, opc, ui, enq, applied, file>>

\* ExternalEmbedding.update, self.async_q is not None: up to its first put()
UpdateAsyncBegin ==
    /\ opc = "ready"
    /\ ~UseSyncPath
    /\ state_step < MaxSteps
    /\ state_step' = state_step + 1
    /\ IF trace = <<>>
       THEN /\ opc' = "ready"
            /\ ui' = 0
       ELSE /\ opc' = "update"
            /\ ui' = 1
    /\ err' = None
    /\ UNCHANGED <<args, is_feat, emb, state_sum, trace, has_cross_rel, cpu_bitmap, global_emb,
                   async_q, async_p, wreq, enq, applied,
                   file, base>>

\* the request update() enqueues for a traced pair
Request(entry) == [none |-> FALSE, idx |-> entry.idx, grad |-> entry.grad]

\* update()'s self.async_q.put((grad_indices, grad_values, gpu_id)), which
\* blocks while the queue is full; after the last pair, self.trace = []
UpdatePut ==
    /\ opc = "update"
    /\ HasRoom(async_q)
    /\ async_q' = Put(async_q, Request(trace[ui]))
    /\ enq' = Append(enq, Request(trace[ui]))
    /\ IF ui = Len(trace)
       THEN /\ trace' = <<>>
            /\ opc' = "ready"
            /\ ui' = 0
       ELSE /\ trace' = trace
            /\ opc' = "update"
            /\ ui' = ui + 1
    /\ UNCHANGED <<args, is_feat, emb, state_sum, state_step, has_cross_rel, cpu_bitmap,
                   global_emb, async_p, wreq, err, applied,
                   file, base>>

\* finish_async_update is called on a table that has a channel and reaches
\* its put()
FinishBegin ==
    /\ opc = "ready"
    /\ async_q.exists
    /\ opc' = "finish"
    /\ err' = None
    /\ UNCHANGED <<args, is_feat, emb, state_sum, trace, state_step, has_cross_rel,
                   cpu_bitmap, global_emb, async_q, async_p, wreq, ui, enq, applied,
                   file, base>>

\* finish_async_update's self.async_q.put((None, None, None)), which blocks
\* while the queue is full
FinishPut ==
    /\ opc = "finish"
    /\ HasRoom(async_q)
    /\ async_q' = Put(async_q, Sentinel)
    /\ enq' = Append(enq, Sentinel)
    /\ opc' = "join"
    /\ err' = None
    /\ UNCHANGED <<args, is_feat, emb, state_sum, trace, state_step, has_cross_rel, cpu_bitmap,
                   global_emb, async_p, wreq, ui, applied,
                   file, base>>

\* Process.join() returns once the worker process has exited, whether its
\* function returned or raised; the exit code is not looked at
HasExited(p) == p \in {"Terminated", "Failed"}

\* finish_async_update's self.async_p.join()
FinishJoin ==
    /\ opc = "join"
    /\ HasExited(async_p)
    /\ opc' = "ready"
    /\ UNCHANGED <<args, is_feat, emb, state_sum, trace, state_step, has_cross_rel, cpu_bitmap,
                   global_emb, async_q, async_p, wreq, ui, err, enq, applied,
                   file, base>>

\* the test inverted: grad_indices is not None
IsSentinelInverted(item) == ~item.none

\* async_update's test of what it received: grad_indices is None
IsSentinel(item) == item.none

\* async_update's queue.get() and its test of grad_indices
WorkerGet ==
    /\ async_p = "Idle"
    /\ async_q.items # <<>>
    /\ async_q' = [async_q EXCEPT !.items = Tail(@)]
    /\ IF IsSentinel(Head(async_q.items))
       THEN /\ async_p' = "Terminated"
            /\ wreq' = NoReq
       ELSE /\ async_p' = "Applying"
            /\ wreq' = Head(async_q.items)
    /\ UNCHANGED <<args, is_feat, emb, state_sum, trace, state_step, has_cross_rel, cpu_bitmap,
                   global_emb, opc, ui, err, enq, applied,
                   file, base>>

\* std read before state_sum.index_add_: the row update is scaled by the
\* accumulator of the step before
AsyncStepStaleStd(e, ss, req) ==
    [emb |-> ApplyEmb(args.lr, e, ss, req.idx, req.grad),
     state_sum |-> ApplyStateSum(ss, req.idx, GradSum(req.grad))]

\* async_update's body for one request (grad_indices, grad_values), lines
\* 175-190: emb.state_sum and emb.emb after it
AsyncStep(e, ss, req) ==
    LET grad_sum == GradSum(req.grad)
        ss1 == IndexAdd(ss, req.idx, grad_sum, 1)
        std_values == StdValues(ss1, req.idx)
        tmp == Tmp(args.lr, req.grad, std_values)
    IN [emb |-> IndexAddRows(e, req.idx, tmp, 1), state_sum |-> ss1]

\* update()'s cross-relation block repeated in the worker: the rows of the
\* cross set are applied to the global table as well
AsyncGlobalAsSync(g, req) == SyncGlobal(g, req.idx, req.grad, GradSum(req.grad))

\* the global table after async_update's body: the body has no statement on
\* emb.global_emb, emb.cpu_bitmap or emb.has_cross_rel
AsyncGlobal(g, req) == g

\* async_update's body under th.no_grad() for the request it holds
WorkerApply ==
    /\ async_p = "Applying"
    /\ LET st == AsyncStep(emb, state_sum, wreq)
       IN /\ state_sum' = st.state_sum
          /\ emb' = st.emb
    /\ global_emb' = AsyncGlobal(global_emb, wreq)
    /\ applied' = Append(applied, wreq)
    /\ wreq' = NoReq
    /\ async_p' = "Idle"
    /\ UNCHANGED <<args, is_feat, trace, state_step, has_cross_rel, cpu_bitmap,
                   async_q, opc, ui, err, enq,
                   file, base>>

\* async_update's body raises (a device transfer, an allocation, an
\* index_add_): before anything is written, or, when partial, after
\* state_sum.index_add_ and before emb.index_add_.  thread_wrapped_func
\* re-raises the exception in the worker process, which exits; nothing is
\* sent to the owner.
WorkerFault(partial) ==
    /\ async_p = "Applying"
    /\ state_sum' = IF partial
                    THEN ApplyStateSum(state_sum, wreq.idx, GradSum(wreq.grad))
                    ELSE state_sum
    /\ wreq' = NoReq
    /\ async_p' = "Failed"
    /\ UNCHANGED <<args, is_feat, emb, trace, state_step, has_cross_rel, cpu_bitmap,
                   global_emb, async_q, opc, ui, err, enq, applied,
                   file, base>>

Next ==
    \/ \E e \in EmbInits : InitEmb(e)
    \/ \E c \in CrossRelSets : SetupCrossRels(c)
    \/ \E inp \in IdxInputs, tr \in BOOLEAN : Gather(inp, tr)
    \/ \E inp \in IdxInputs, tr \in BOOLEAN : GatherFails(inp, tr)
    \/ UpdateSync
    \/ CreateAsyncUpdate
    \/ UpdateAsyncBegin
    \/ UpdatePut
    \/ FinishBegin
    \/ FinishPut
    \/ FinishJoin
    \/ WorkerGet
    \/ WorkerApply
    \/ \E partial \in BOOLEAN : WorkerFault(partial)

Spec == Init /\ [][Next]_vars

\* ExternalEmbedding.save: np.save(file_name, self.emb.cpu().detach().numpy())
Save ==
    /\ opc = "ready"
    /\ ~is_feat
    /\ file' = emb
    /\ err' = None
    /\ UNCHANGED <<args, is_feat, emb, state_sum, trace, state_step, has_cross_rel,
                   cpu_bitmap, global_emb, async_q, async_p, wreq, opc, ui, enq,
                   applied, base>>

\* ExternalEmbedding.load: self.emb = th.Tensor(np.load(file_name)); the
\* array is taken as it is, and nothing else of the table is assigned
Load ==
    /\ opc = "ready"
    /\ file # NoFile
    /\ emb' = file
    /\ err' = None
    /\ UNCHANGED <<args, is_feat, state_sum, trace, state_step, has_cross_rel,
                   cpu_bitmap, global_emb, async_q, async_p, wreq, opc, ui, enq,
                   applied, file, base>>

\* construct, init, gather, update, save and load of a table that owns its
\* storage and has neither a worker nor a cross-relation partition
NextIO ==
    \/ \E e \in EmbInits : InitEmb(e)
    \/ \E inp \in IdxInputs, tr \in BOOLEAN : Gather(inp, tr)
    \/ UpdateSync
    \/ Save
    \/ Load

SpecIO == InitIO /\ [][NextIO]_vars

SpecCfg == InitCfg /\ [][Next]_vars

\* ------------------------------------------------------------ the claims
\* a step that can be the gather (inp, tr): it leaves what every gather
\* leaves, and the trace tells whether and what it traced
GatherLike(inp, tr) ==
    /\ opc = "ready" /\ opc' = "ready"
    /\ state_step' = state_step /\ async_q' = async_q /\ async_p' = async_p
    /\ IF tr THEN /\ Len(trace') = Len(trace) + 1
                  /\ trace'[Len(trace')].idx = GatherIdx(inp)
             ELSE trace' = trace

\* what every returning gather leaves alone: a step that is not of this kind
\* is no gather
GatherFrame ==
    /\ opc = "ready" /\ opc' = "ready"
    /\ state_step' = state_step /\ state_sum' = state_sum
    /\ async_q' = async_q /\ async_p' = async_p
    /\ err' = None

\* the requests among items, in order
RECURSIVE Requests(_)
Requests(items) ==
    IF items = <<>> THEN <<>>
    ELSE (IF Head(items).none THEN <<>> ELSE <<Head(items)>>) \o Requests(Tail(items))

\* the items put before the first sentinel
RECURSIVE BeforeSentinel(_)
BeforeSentinel(items) ==
    IF items = <<>> \/ Head(items).none THEN <<>>
    ELSE <<Head(items)>> \o BeforeSentinel(Tail(items))

IsPrefix(s, t) == Len(s) <= Len(t) /\ s = SubSeq(t, 1, Len(s))

\* C1: the worker applies the requests in the order they were enqueued,
\* never one that was not enqueued and none twice; and once it has exited on
\* the sentinel it has applied every request enqueued before the sentinel,
\* all N of them.
C1_AppliesAllInOrder ==
    /\ IsPrefix(applied, BeforeSentinel(enq))
    /\ async_p = "Terminated" => applied = BeforeSentinel(enq)

\* C1 witness: the worker has exited after applying two different requests
C1_Witness ==
    /\ async_p = "Terminated"
    /\ Len(applied) >= 2
    /\ applied[1] # applied[2]

\* C2: the channel never holds more than one pending item, and while it
\* holds one neither of the owner's put() calls can complete.
C2_AtMostOnePending ==
    /\ Len(async_q.items) <= 1
    /\ Len(async_q.items) = 1 => ~ENABLED UpdatePut /\ ~ENABLED FinishPut

\* C2 witness: update() is blocked in put() on a full channel
C2_Witness ==
    /\ opc = "update"
    /\ Len(async_q.items) = 1
    /\ async_p = "Applying"

\* the requests the worker has taken from the channel
Received == Len(applied) + (IF async_p \in {"Applying", "Failed"} THEN 1 ELSE 0)

\* C3 as claimed: the owner is never more than one request ahead of what
\* the worker has fully applied.
C3_AheadByAtMostOne == Len(Requests(enq)) - Len(applied) <= 1

\* C3 amended: the owner is never more than two requests ahead of what the
\* worker has fully applied (one pending in the channel, one the worker
\* holds), and never more than one ahead of what the worker has received.
C3_AheadByAtMostTwo ==
    /\ Len(Requests(enq)) - Len(applied) <= 2
    /\ Len(Requests(enq)) - Received <= 1

\* C3 witness: two requests enqueued, none applied yet
C3_Witness ==
    /\ Len(Requests(enq)) - Len(applied) = 2
    /\ async_p = "Applying"
    /\ Len(async_q.items) = 1

\* C4: a gather with trace disabled leaves the trace list as it is; a gather
\* with trace enabled appends exactly one entry, at the end, whose indices are
\* the requested ones (every row, in order, when idx is None).
C4_GatherTraces ==
    [][\A inp \in IdxInputs, tr \in BOOLEAN :
          (GatherFrame /\ Gather(inp, tr)) =>
              IF tr
              THEN /\ Len(trace') = Len(trace) + 1
                   /\ SubSeq(trace', 1, Len(trace)) = trace
                   /\ trace'[Len(trace')].idx =
                          (IF inp.none THEN [k \in 1..NumRows |-> k] ELSE inp.idx)
              ELSE trace' = trace]_vars

\* C4 witness: a traced gather of a repeated index, then one of idx = None
C4_Witness ==
    /\ Len(trace) = 2
    /\ trace[1].idx = [k \in 1..IdxLen |-> 1]
    /\ trace[2].idx = idx_all

\* a call of update() begins: self.state_step += 1
UpdateCalled == state_step' = state_step + 1

\* the tables as update() finds them
Tables == [emb |-> emb, state_sum |-> state_sum, global_emb |-> global_emb]

\* the pairs of tr consumed one after the other, first to last
RECURSIVE ConsumeInOrder(_, _)
ConsumeInOrder(st, tr) ==
    IF tr = <<>> THEN st ELSE ConsumeInOrder(SyncStep(st, Head(tr)), Tail(tr))

\* C5: update() consumes every entry of the trace in the order of the trace
\* and returns with the trace empty: on the synchronous path the tables are
\* those of applying the entries first to last, on the async path the
\* channel was handed one request per entry, first to last, and the trace is
\* cleared as soon as the last one is enqueued.
C5_UpdateConsumesTrace ==
    [][/\ (UpdateCalled /\ ~async_q.exists) =>
              /\ trace' = <<>>
              /\ Tables' = ConsumeInOrder(Tables, trace)
       /\ (UpdateCalled /\ async_q.exists /\ trace = <<>>) =>
              trace' = <<>> /\ opc' = "ready"
       /\ (opc = "update" /\ opc' = "update") => trace' = trace
       /\ (opc = "update" /\ opc' = "ready") =>
              /\ trace' = <<>>
              /\ Len(enq') >= Len(trace)
              /\ SubSeq(enq', Len(enq') - Len(trace) + 1, Len(enq'))
                     = [k \in 1..Len(trace) |-> Request(trace[k])]]_vars

\* C5 witness: both paths have consumed a trace of two entries that differ
C5_Witness ==
    /\ state_step = 2
    /\ trace = <<>>
    /\ opc = "ready"
    /\ Len(enq) = 2
    /\ enq[1] # enq[2]
    /\ Len(applied) = 0
    /\ state_sum # ZeroSum

RECURSIVE SumSet(_, _)
SumSet(S, f) ==
    IF S = {} THEN 0
    ELSE LET j == CHOOSE x \in S : TRUE IN f[j] + SumSet(S \ {j}, f)

\* One Adagrad step on a table with the duplicates of index aggregated first:
\* each row's squared-gradient signals are summed and added once, and each
\* row's deltas are summed and added once.
Aggregated(t, clr, index, grad_values, grad_sum) ==
    LET occ(r) == {k \in 1..Len(index) : index[k] = r}
        ss1 == [r \in Rows |-> t.state_sum[r] + SumSet(occ(r), grad_sum)]
        delta(k, d) == FDiv(FMul(-clr, grad_values[k][d]), FSqrt(ss1[index[k]]) + Eps)
    IN [emb |-> [r \in Rows |-> [d \in Dims |->
                    t.emb[r][d] + SumSet(occ(r), [k \in 1..Len(index) |-> delta(k, d)])]],
        state_sum |-> ss1]

AggregatedStep(st, entry) ==
    LET gs == GradSum(entry.grad)
        mask == [k \in 1..Len(entry.idx) |-> has_cross_rel /\ cpu_bitmap[entry.idx[k]]]
        loc == Aggregated(st, args.lr, entry.idx, entry.grad, gs)
    IN [emb |-> loc.emb,
        state_sum |-> loc.state_sum,
        global_emb |-> Aggregated(st.global_emb, args.lr,
                                  MaskSelect(entry.idx, mask, 1),
                                  MaskSelect(entry.grad, mask, 1),
                                  MaskSelect(gs, mask, 1))]

RECURSIVE AggregatedLoop(_, _)
AggregatedLoop(st, tr) ==
    IF tr = <<>> THEN st ELSE AggregatedLoop(AggregatedStep(st, Head(tr)), Tail(tr))

\* the spec's scenario: indices [0, 0] with gradients [[1, 1], [2, 2]]
ScenarioGrad == <<[d \in Dims |-> FP], [d \in Dims |-> 2 * FP]>>

NonNegative(ss) == \A r \in DOMAIN ss : ss[r] >= 0

\* C7: the accumulator of every row, of the table and of the global table, is
\* never negative, and no step but init lowers it.
C7_StateSumMonotone ==
    [][/\ NonNegative(state_sum) /\ NonNegative(global_emb.state_sum)
       /\ NonNegative(state_sum') /\ NonNegative(global_emb'.state_sum)
       /\ \/ \E e \in EmbInits : InitEmb(e)
          \/ /\ DOMAIN state_sum' = DOMAIN state_sum
             /\ \A r \in DOMAIN state_sum : state_sum'[r] >= state_sum[r]
             /\ \A r \in Rows :
                    global_emb'.state_sum[r] >= global_emb.state_sum[r]]_vars

\* C7 witness: a synchronous update has raised a global row and a local row,
\* and the worker has then applied a request
C7_Witness ==
    /\ has_cross_rel
    /\ global_emb.state_sum[1] > 0
    /\ applied # <<>>
    /\ \A r \in Rows : state_sum[r] > 0

\* the rows a gather can be asked for
GatherIdxs == {GatherIdx(inp) : inp \in IdxInputs}

RowsOf(idx) == {idx[k] : k \in 1..Len(idx)}

\* C8: on a table with a cross-relation partition, whatever is gathered,
\* every requested row of the cross set is, when the gather returns, equal in
\* the table to the global table's row, and so is the value returned for it;
\* a row that is not requested or not in the cross set is not overwritten.
C8_ReadThrough ==
    has_cross_rel =>
        \A idx \in GatherIdxs :
            LET after == Mirrored(idx)
                s == GatherResult(idx)
            IN /\ \A k \in 1..Len(idx) :
                      cpu_bitmap[idx[k]] =>
                          /\ after[idx[k]] = global_emb.emb[idx[k]]
                          /\ s[k] = global_emb.emb[idx[k]]
               /\ \A r \in Rows :
                      (r \notin RowsOf(idx) \/ ~cpu_bitmap[r]) => after[r] = emb[r]

\* C8 witness: the global row 1 was updated and a later gather has mirrored
\* it, while row 2, not in the cross set, differs from the global row 2
C8_Witness ==
    /\ has_cross_rel
    /\ cpu_bitmap[1] /\ ~cpu_bitmap[2]
    /\ global_emb.state_sum[1] > 0
    /\ emb[1] = global_emb.emb[1]
    /\ emb[2] # global_emb.emb[2]
    /\ trace # <<>>

\* the rows some entry of the trace names
Touched == UNION {RowsOf(trace[i].idx) : i \in 1..Len(trace)}

InCrossSet(r) == has_cross_rel /\ cpu_bitmap[r]

GlobalChanged(r) ==
    \/ global_emb'.state_sum[r] # global_emb.state_sum[r]
    \/ global_emb'.emb[r] # global_emb.emb[r]

LocalChanged(r) ==
    \/ emb'[r] # emb[r]
    \/ r \in DOMAIN state_sum /\ state_sum'[r] # state_sum[r]

ConfigMismatch == args.async_update # async_q.exists

C11_FeatTraceFails ==
    [][is_feat =>
          /\ \A inp \in IdxInputs :
                 /\ ~ENABLED Gather(inp, TRUE)
                 /\ opc = "ready" =>
                        ENABLED GatherFails(inp, TRUE) /\ ENABLED Gather(inp, FALSE)
                 /\ GatherFails(inp, TRUE) =>
                        /\ err' # None
                        /\ trace' = trace /\ emb' = emb /\ state_sum' = state_sum
                        /\ global_emb' = global_emb /\ state_step' = state_step
                 /\ Gather(inp, FALSE) =>
                        err' = None /\ trace' = trace /\ emb' = emb
          /\ trace = <<>> /\ trace' = <<>>]_vars

\* C11 witness: a feature table whose last call, a traced gather, failed
\* after an untraced one had returned and an update had run
C11_Witness ==
    /\ is_feat
    /\ err = "AssertionError"
    /\ state_step = 1
    /\ trace = <<>>

\* the owner is inside a put() that can never return: the channel is full and
\* the worker process, its only reader, has exited
BlockedForever ==
    /\ opc = "update"
    /\ ~HasRoom(async_q)
    /\ async_p \in {"Terminated", "Failed"}

\* C12: once the worker has failed, the owner's next interaction with it
\* raises the failure: an enqueue of update() raises, finish_async_update
\* never returns normally, and the owner is never left blocked forever.
C12_WorkerFaultReraised ==
    [][async_p = "Failed" =>
          /\ UpdatePut => err' # None
          /\ FinishJoin => err' # None
          /\ ~BlockedForever']_vars

\* the channel has been handed its first sentinel and nothing after it
FirstFinish == enq = Append(BeforeSentinel(enq), Sentinel)

\* C13: without a cross-relation partition, when finish_async_update returns
\* after the worker has exited on the sentinel, emb and state_sum are what the
\* synchronous path makes of the tables create_async_update found and the
\* requests enqueued, taken in the order they were enqueued.
C13_SyncAsyncEquivalent ==
    [][(FinishJoin /\ async_p = "Terminated" /\ FirstFinish /\ ~has_cross_rel) =>
          LET st == ConsumeInOrder(base, BeforeSentinel(enq))
          IN emb = st.emb /\ state_sum = st.state_sum]_vars

\* C13 witness: finish_async_update has returned after the worker applied
\* two requests to the same rows, the second scaled by a grown accumulator
C13_Witness ==
    /\ opc = "ready"
    /\ async_p = "Terminated"
    /\ FirstFinish
    /\ ~has_cross_rel
    /\ Len(applied) = 2
    /\ applied[1].idx = applied[2].idx
    /\ state_sum # base.state_sum
    /\ emb # base.emb

\* a sentinel has been handed to the channel
SentinelSent == \E i \in 1..Len(enq) : IsSentinel(enq[i])

\* async mode is active: create_async_update has been called and no
\* finish_async_update has returned yet
AsyncActive == async_q.exists /\ (opc = "join" \/ ~SentinelSent)

\* a step of the owner's update(), on either path
UpdateSteps == UpdateCalled \/ UpdatePut

\* C14 as claimed: while async mode is active no gather and no update() of
\* the owner writes emb or state_sum.
C14_OwnerNeverWrites ==
    [][AsyncActive =>
          /\ UpdateSteps => emb' = emb /\ state_sum' = state_sum
          /\ \A inp \in IdxInputs, tr \in BOOLEAN :
                 (GatherLike(inp, tr) /\ Gather(inp, tr)) =>
                     emb' = emb /\ state_sum' = state_sum]_vars

\* C14 amended: while async mode is active update() writes neither emb nor
\* state_sum and a gather never writes state_sum; a gather writes emb only
\* on a table with a cross-relation partition, at the requested rows of the
\* cross set, which it overwrites with the global rows.
C14_OwnerWritesOnlyMirror ==
    [][AsyncActive =>
          /\ UpdateSteps => emb' = emb /\ state_sum' = state_sum
          /\ \A inp \in IdxInputs, tr \in BOOLEAN :
                 (GatherLike(inp, tr) /\ Gather(inp, tr)) =>
                     /\ state_sum' = state_sum
                     /\ ~has_cross_rel => emb' = emb
                     /\ \A r \in Rows :
                            emb'[r] # emb[r] =>
                                /\ InCrossSet(r)
                                /\ r \in RowsOf(GatherIdx(inp))
                                /\ emb'[r] = global_emb.emb[r]]_vars

\* C14 witness: async mode is active, the worker has written the cross row 1
\* and holds another request for it, and a gather of the owner has since
\* overwritten that row with the global row
C14_Witness ==
    /\ AsyncActive
    /\ InCrossSet(1)
    /\ async_p = "Applying"
    /\ 1 \in RowsOf(wreq.idx)
    /\ Len(applied) = 1
    /\ 1 \in RowsOf(applied[1].idx)
    /\ state_sum[1] > 0
    /\ emb[1] = global_emb.emb[1]

\* some finish_async_update has returned
Finished == SentinelSent /\ opc # "join"

\* C15: the channel exists only from create_async_update until
\* finish_async_update returns; once it has returned the channel is gone, no
\* update() hands the channel a request, which no worker would consume, and
\* none is left blocked on a full channel.
C15_ChannelLifecycle ==
    [][/\ FinishJoin => ~async_q'.exists
       /\ Finished => /\ ~async_q.exists
                       /\ ~UpdatePut
                       /\ ~BlockedForever']_vars

\* finish_async_update is inside a put() that can never return: the channel
\* is full and the worker has already exited on a sentinel
FinishBlockedForever ==
    /\ opc = "finish"
    /\ ~HasRoom(async_q)
    /\ async_p = "Terminated"

\* C16: the worker moves only from Idle to Applying on a request, from
\* Applying back to Idle, and from Idle to Terminated on the sentinel (a fault
\* of its body apart); once Terminated it stays so and applies nothing; and,
\* no fault having occurred, no finish_async_update call is left in a put()
\* that cannot return, as every call is to return eventually.
C16_WorkerStateMachine ==
    [][/\ async_p' # async_p =>
              \/ async_p = None /\ async_p' = "Idle" /\ CreateAsyncUpdate
              \/ /\ async_p = "Idle" /\ async_p' = "Applying"
                 /\ async_q.items # <<>> /\ ~IsSentinel(Head(async_q.items))
              \/ async_p = "Applying" /\ async_p' = "Idle"
              \/ /\ async_p = "Idle" /\ async_p' = "Terminated"
                 /\ async_q.items # <<>> /\ IsSentinel(Head(async_q.items))
              \/ async_p = "Applying" /\ async_p' = "Failed"
       /\ async_p = "Terminated" => async_p' = "Terminated" /\ applied' = applied
       /\ (FinishJoin /\ async_p # "Failed") => async_p' = "Terminated"
       /\ ~FinishBlockedForever']_vars

\* C17: a synchronous update() leaves every row of emb and state_sum that no
\* entry of the trace names as it was; without a cross-relation partition it
\* leaves the global table as it was; with an empty trace it changes no row
\* of any table.
C17_SyncUpdateFrame ==
    [][(UpdateCalled /\ ~async_q.exists) =>
          /\ DOMAIN emb' = DOMAIN emb /\ DOMAIN state_sum' = DOMAIN state_sum
          /\ \A r \in DOMAIN emb : r \notin Touched => emb'[r] = emb[r]
          /\ \A r \in DOMAIN state_sum :
                 r \notin Touched => state_sum'[r] = state_sum[r]
          /\ ~has_cross_rel => global_emb' = global_emb
          /\ trace = <<>> => Tables' = Tables]_vars

\* C17 witness: a synchronous update whose trace named row 1 only has run on
\* a table without a cross-relation partition
C17_Witness ==
    /\ ~is_feat /\ ~has_cross_rel /\ ~async_q.exists
    /\ state_step = 1
    /\ trace = <<>>
    /\ state_sum[1] > 0
    /\ state_sum[2] = 0
    /\ emb[1] # emb[2]

\* C18: on a table with both a channel and a cross-relation partition, the
\* worker applies a request to the local table at every row it names, those
\* of the cross set included; neither a step of update() nor a step of the
\* worker changes the global table, which stays as create_async_update found
\* it; and a gather of a row of the cross set overwrites the local row with
\* that unmodified global row.
C18_AsyncLeavesGlobalAlone ==
    [][(async_q.exists /\ has_cross_rel) =>
          /\ global_emb = base.global_emb /\ global_emb' = base.global_emb
          /\ WorkerApply =>
                 \A r \in RowsOf(wreq.idx) : state_sum'[r] > state_sum[r]
          /\ \A inp \in IdxInputs, tr \in BOOLEAN :
                 (GatherLike(inp, tr) /\ Gather(inp, tr)) =>
                     \A r \in RowsOf(GatherIdx(inp)) :
                         InCrossSet(r) => emb'[r] = base.global_emb.emb[r]]_vars

\* C18 witness: the worker has applied two requests to the cross row 1, and
\* a later gather has put the global row, still as it was, over it
C18_Witness ==
    /\ async_q.exists
    /\ InCrossSet(1)
    /\ async_p = "Idle"
    /\ Len(applied) = 2
    /\ 1 \in RowsOf(applied[1].idx) /\ 1 \in RowsOf(applied[2].idx)
    /\ state_sum[1] > 0
    /\ global_emb.state_sum = ZeroSum
    /\ emb[1] = GlobalEmbInit[1]

\* C19: a table that owns its storage has, after any construct, init,
\* gather, update, save and load, one accumulator entry per row of emb, N of
\* each.
C19_RowAlignment ==
    ~is_feat => /\ Len(state_sum) = NumRows
                /\ Len(emb) = Len(state_sum)

====
